---- MODULE Spec2Model ----
(***************************************************************************)
(* Repository health scoring (health-calculator), the GitHub lookups       *)
(* (github-api) and the search page that drives them (SearchResultsPage).  *)
(*                                                                         *)
(* Instants are integers counted in ticks; DayLen ticks make one day (the  *)
(* source counts milliseconds, 1000*60*60*24 to the day).  Every call of   *)
(* getDaysSince reads the wall clock on its own, so an operation that      *)
(* calls it several times is given the vector of the instants it read.     *)
(***************************************************************************)
EXTENDS Integers, Sequences, FiniteSets, TLC

VARIABLES
    now,            \* the wall clock (new Date())
    repo,           \* the GitHubRepoData record handed to the transformer
    out,            \* the last transformGitHubRepoToRepository call: its clock reads and its result
    filters,        \* useState: filters
    repositories,   \* useState: repositories
    loading,        \* useState: loading
    error,          \* useState: error
    inv,            \* the performSearch invocations, by order of start
    started,        \* how many performSearch invocations have started
    comparing,      \* useState: comparing
    timers,         \* the setTimeout callbacks handleCompare has scheduled, oldest first
    lastCompare     \* the last handleCompare call: its repoId and the selection it found

vars == <<now, repo, out, filters, repositories, loading, error, inv, started,
          comparing, timers, lastCompare>>
pageVars == <<filters, repositories, loading, error, inv, started>>
compareVars == <<comparing, timers, lastCompare>>

(***************************************************************************)
(* Bounds                                                                  *)
(***************************************************************************)
MaxClock == 2       \* the clock runs over 0..MaxClock
MaxInv == 2         \* performSearch invocations in one behaviour
MaxTimers == 1      \* setTimeout callbacks of handleCompare that can be pending at once

\* ticks to the day: 1000 * 60 * 60 * 24 in the source, whose tick is the millisecond
DayLen == 2

\* A nullable or optional field is <<>> when null or undefined, <<v>> when it holds v.
None == <<>>
Some(v) == <<v>>

(***************************************************************************)
(* JavaScript helpers                                                      *)
(***************************************************************************)
Abs(x) == IF x < 0 THEN 0 - x ELSE x

\* Math.ceil(a / b) for b > 0, a of either sign (rounds towards +infinity)
Ceil(a, b) == IF a >= 0 THEN (a + b - 1) \div b ELSE 0 - ((0 - a) \div b)

\* Math.round(sum / n): the nearest integer, halves up (sum >= 0)
RoundDiv(sum, n) == (2 * sum + n) \div (2 * n)

\* truthiness of a nullable string, of an optional number, of an optional boolean
TruthyStr(v) == v # None /\ v[1] # ""
TruthyNum(v) == v # None /\ v[1] # 0
TruthyBool(v) == v # None /\ v[1]

\* v || d, for a nullable string and for an optional number
StrOr(v, d) == IF TruthyStr(v) THEN v[1] ELSE d
NumOr(v, d) == IF TruthyNum(v) THEN v[1] ELSE d

RECURSIVE SumSeq(_)
SumSeq(s) == IF s = <<>> THEN 0 ELSE Head(s) + SumSeq(Tail(s))

(***************************************************************************)
(* health-calculator                                                       *)
(***************************************************************************)
\* getDaysSince without Math.abs: the signed difference
getDaysSince_Signed(date, t) == Ceil(t - date, DayLen)

\* getDaysSince(dateString), the clock read returning t
getDaysSince(date, t) == Ceil(Abs(t - date), DayLen)

calculateActivityScore(pushedAt, t) ==
    LET daysSinceLastPush == getDaysSince(pushedAt, t)
    IN  IF daysSinceLastPush <= 7 THEN 95
        ELSE IF daysSinceLastPush <= 14 THEN 90
        ELSE IF daysSinceLastPush <= 30 THEN 85
        ELSE IF daysSinceLastPush <= 60 THEN 75
        ELSE IF daysSinceLastPush <= 90 THEN 65
        ELSE IF daysSinceLastPush <= 180 THEN 50
        ELSE 30

Min(a, b) == IF a <= b THEN a ELSE b

calculateCommunityScore(stars, contributors) ==
    LET s == IF stars >= 50000 THEN 50
             ELSE IF stars >= 10000 THEN 45
             ELSE IF stars >= 5000 THEN 40
             ELSE IF stars >= 1000 THEN 35
             ELSE IF stars >= 500 THEN 25
             ELSE 15
        c == IF contributors >= 500 THEN 50
             ELSE IF contributors >= 100 THEN 45
             ELSE IF contributors >= 50 THEN 40
             ELSE IF contributors >= 20 THEN 30
             ELSE IF contributors >= 10 THEN 20
             ELSE 10
    IN  Min(100, s + c)

calculateDocumentationScore(description, hasWiki, hasPages, homepage) ==
      (IF TruthyStr(description) /\ Len(description[1]) > 20 THEN 25 ELSE 0)
    + (IF hasWiki THEN 25 ELSE 0)
    + (IF hasPages THEN 25 ELSE 0)
    + (IF TruthyStr(homepage) THEN 25 ELSE 0)

\* calculateFreshnessScore with the young tier reaching up to 365 days inclusive
calculateFreshnessScore_Le365(createdAt, pushedAt, tc, tp) ==
    LET daysSinceCreation == getDaysSince(createdAt, tc)
        daysSinceLastPush == getDaysSince(pushedAt, tp)
    IN  IF daysSinceCreation <= 365
        THEN IF daysSinceLastPush <= 30 THEN 95
             ELSE IF daysSinceLastPush <= 90 THEN 85
             ELSE 70
        ELSE IF daysSinceLastPush <= 7 THEN 95
        ELSE IF daysSinceLastPush <= 30 THEN 85
        ELSE IF daysSinceLastPush <= 90 THEN 70
        ELSE IF daysSinceLastPush <= 180 THEN 55
        ELSE 35

\* tc, tp: the clock reads of the two getDaysSince calls, in that order
calculateFreshnessScore(createdAt, pushedAt, tc, tp) ==
    LET daysSinceCreation == getDaysSince(createdAt, tc)
        daysSinceLastPush == getDaysSince(pushedAt, tp)
    IN  IF daysSinceCreation < 365
        THEN IF daysSinceLastPush <= 30 THEN 95
             ELSE IF daysSinceLastPush <= 90 THEN 85
             ELSE 70
        ELSE IF daysSinceLastPush <= 7 THEN 95
        ELSE IF daysSinceLastPush <= 30 THEN 85
        ELSE IF daysSinceLastPush <= 90 THEN 70
        ELSE IF daysSinceLastPush <= 180 THEN 55
        ELSE 35

\* calculateCompatibilityScore with a license worth 50
calculateCompatibilityScore_License50(license, hasCI, topics) ==
      (IF license # None THEN 50 ELSE 0)
    + (IF TruthyBool(hasCI) THEN 30 ELSE 0)
    + (IF Len(topics) > 0 THEN 30 ELSE 0)

calculateCompatibilityScore(license, hasCI, topics) ==
      (IF license # None THEN 40 ELSE 0)
    + (IF TruthyBool(hasCI) THEN 30 ELSE 0)
    + (IF Len(topics) > 0 THEN 30 ELSE 0)

\* r: the three clock reads of the call (activity; freshness created, pushed)
calculateHealthScore(g, r) ==
    LET scores == << calculateActivityScore(g.pushed_at, r[1]),
                     calculateCommunityScore(g.stargazers_count, NumOr(g.contributors, 0)),
                     calculateDocumentationScore(g.description, g.has_wiki, g.has_pages, g.homepage),
                     calculateFreshnessScore(g.created_at, g.pushed_at, r[2], r[3]),
                     calculateCompatibilityScore(g.license, g.hasCI, g.topics) >>
    IN  RoundDiv(SumSeq(scores), Len(scores))

Plural(n, one, unit) == IF n = 1 THEN one ELSE ToString(n) \o " " \o unit \o " ago"

\* getTimeAgo counting in days up to 7 inclusive
getTimeAgo_DaysLe7(date, t) ==
    LET days == getDaysSince(date, t)
    IN  IF days = 0 THEN "today"
        ELSE IF days = 1 THEN "1 day ago"
        ELSE IF days <= 7 THEN ToString(days) \o " days ago"
        ELSE IF days < 30 THEN Plural(days \div 7, "1 week ago", "weeks")
        ELSE IF days < 365 THEN Plural(days \div 30, "1 month ago", "months")
        ELSE Plural(days \div 365, "1 year ago", "years")

getTimeAgo(date, t) ==
    LET days == getDaysSince(date, t)
    IN  IF days = 0 THEN "today"
        ELSE IF days = 1 THEN "1 day ago"
        ELSE IF days < 7 THEN ToString(days) \o " days ago"
        ELSE IF days < 30 THEN Plural(days \div 7, "1 week ago", "weeks")
        ELSE IF days < 365 THEN Plural(days \div 30, "1 month ago", "months")
        ELSE Plural(days \div 365, "1 year ago", "years")

\* the clock reads of one transformGitHubRepoToRepository call, in program order:
\* 1..3 calculateHealthScore, 4..6 healthBreakdown, 7 daysSinceLastPush,
\* 8 the Modern signal, 9 getTimeAgo
NumReads == 9

\* Signals with Modern pushed before Large Community
Signals_ModernFirst(g, r) ==
    LET daysSinceLastPush == getDaysSince(g.pushed_at, r[7])
    IN     (IF daysSinceLastPush <= 7 THEN <<"Active">> ELSE <<>>)
        \o (IF g.has_wiki \/ g.has_pages \/ TruthyStr(g.homepage) THEN <<"Good Docs">> ELSE <<>>)
        \o (IF TruthyNum(g.goodFirstIssues) /\ g.goodFirstIssues[1] > 0
            THEN <<"Beginner Friendly">> ELSE <<>>)
        \o (IF getDaysSince(g.created_at, r[8]) < 730 THEN <<"Modern">> ELSE <<>>)
        \o (IF g.stargazers_count >= 10000 THEN <<"Large Community">> ELSE <<>>)

Signals(g, r) ==
    LET daysSinceLastPush == getDaysSince(g.pushed_at, r[7])
    IN     (IF daysSinceLastPush <= 7 THEN <<"Active">> ELSE <<>>)
        \o (IF g.has_wiki \/ g.has_pages \/ TruthyStr(g.homepage) THEN <<"Good Docs">> ELSE <<>>)
        \o (IF TruthyNum(g.goodFirstIssues) /\ g.goodFirstIssues[1] > 0
            THEN <<"Beginner Friendly">> ELSE <<>>)
        \o (IF g.stargazers_count >= 10000 THEN <<"Large Community">> ELSE <<>>)
        \o (IF getDaysSince(g.created_at, r[8]) < 730 THEN <<"Modern">> ELSE <<>>)

Trend(g, r) ==
    LET daysSinceLastPush == getDaysSince(g.pushed_at, r[7])
    IN  IF daysSinceLastPush <= 7 THEN "up"
        ELSE IF daysSinceLastPush > 90 THEN "down"
        ELSE "stable"

transformGitHubRepoToRepository(g, r) ==
    [ id |-> ToString(g.id),
      name |-> g.name,
      description |-> StrOr(g.description, "No description available"),
      stars |-> g.stargazers_count,
      healthScore |-> calculateHealthScore(g, r),
      lastCommit |-> getTimeAgo(g.pushed_at, r[9]),
      goodFirstIssues |-> NumOr(g.goodFirstIssues, 0),
      ciStatus |-> IF TruthyBool(g.hasCI) THEN "passing" ELSE "warning",
      language |-> StrOr(g.language, "Unknown"),
      license |-> IF g.license # None THEN StrOr(Some(g.license[1].name), "No License") ELSE "No License",
      contributors |-> NumOr(g.contributors, 0),
      topics |-> g.topics,
      signals |-> Signals(g, r),
      trend |-> Trend(g, r),
      healthBreakdown |->
        [ activity |-> calculateActivityScore(g.pushed_at, r[4]),
          community |-> calculateCommunityScore(g.stargazers_count, NumOr(g.contributors, 0)),
          documentation |-> calculateDocumentationScore(g.description, g.has_wiki,
                                                        g.has_pages, g.homepage),
          freshness |-> calculateFreshnessScore(g.created_at, g.pushed_at, r[5], r[6]),
          compatibility |-> calculateCompatibilityScore(g.license, g.hasCI, g.topics) ],
      avgIssueResponseTime |-> "< 2 days",
      prMergeRate |-> 75,
      activeContributors |-> (NumOr(g.contributors, 0) * 3) \div 10,
      contributorDiversity |-> NumOr(g.contributors, 0) \div 2,
      codeCoverage |-> 80,
      hasGoodDocs |-> g.has_wiki \/ g.has_pages \/ TruthyStr(g.homepage),
      hasWiki |-> g.has_wiki,
      hasWebsite |-> TruthyStr(g.homepage) ]

(***************************************************************************)
(* Input records for the transformer                                       *)
(***************************************************************************)
\* the instant d whole days before tick 0 (after it, for d < 0)
DaysAgo(d) == 0 - d * DayLen

PushedDays == {-2, -1, 0, 1, 6, 7, 13, 14, 29, 30, 59, 60, 89, 90, 179, 180, 364, 729}
CreatedDays == {10, 364, 729, 800}

Desc20 == "12345678901234567890"
Desc21 == "123456789012345678901"
MIT == [spdx_id |-> "MIT", name |-> "MIT License"]

\* the fields of GitHubRepoData that do not hold an instant
Profiles ==
    [ stargazers_count : {0, 50000},
      contributors : {None, Some(500)},
      description : {Some(Desc20), Some(Desc21)},
      has_wiki : BOOLEAN,
      has_pages : BOOLEAN,
      homepage : {None, Some("https://example.org")},
      license : {None, Some(MIT)},
      hasCI : {None, Some(TRUE)},
      topics : {<<>>, <<"cli">>},
      goodFirstIssues : {None, Some(2)} ]

Bare == [ stargazers_count |-> 9999, contributors |-> Some(0), description |-> None,
          has_wiki |-> FALSE, has_pages |-> FALSE, homepage |-> Some(""),
          license |-> None, hasCI |-> Some(FALSE), topics |-> <<>>,
          goodFirstIssues |-> Some(0) ]
Rich == [ stargazers_count |-> 10000, contributors |-> Some(60), description |-> Some(Desc21),
          has_wiki |-> TRUE, has_pages |-> FALSE, homepage |-> None,
          license |-> Some(MIT), hasCI |-> Some(TRUE), topics |-> <<"cli", "rust">>,
          goodFirstIssues |-> Some(1) ]

MkRepo(p, pushedDays, createdDays) ==
    [ id |-> 42, name |-> "tool", full_name |-> "acme/tool", language |-> Some("Rust"),
      pushed_at |-> DaysAgo(pushedDays), created_at |-> DaysAgo(createdDays),
      stargazers_count |-> p.stargazers_count, contributors |-> p.contributors,
      description |-> p.description, has_wiki |-> p.has_wiki, has_pages |-> p.has_pages,
      homepage |-> p.homepage, license |-> p.license, hasCI |-> p.hasCI,
      topics |-> p.topics, goodFirstIssues |-> p.goodFirstIssues ]

\* every profile at one pair of instants, and two profiles at every pair of instants
Repos ==
         { MkRepo(p, 7, 364) : p \in Profiles }
    \cup { MkRepo(p, d[1], d[2]) : p \in {Bare, Rich}, d \in PushedDays \X CreatedDays }

(***************************************************************************)
(* The transformer under a running clock                                   *)
(***************************************************************************)
\* The instants the NumReads clock reads of one synchronous call can return when the
\* call starts at t: the clock moves on by at most one tick while the call runs.
ReadVectors(t) ==
    { [i \in 1..NumReads |-> IF i <= k THEN t ELSE t + 1] :
        k \in IF t < MaxClock THEN 0..NumReads ELSE {NumReads} }

Tick ==
    /\ now < MaxClock
    /\ now' = now + 1
    /\ UNCHANGED <<repo, out>>
    /\ UNCHANGED pageVars
    /\ UNCHANGED compareVars

\* the instant whose age the i-th clock read of a transform call measures
ReadDate(g, i) == IF i \in {2, 5, 8} THEN g.created_at ELSE g.pushed_at

\* whole days between two instants, rounded up
WholeDays(a, b) == (Abs(a - b) + DayLen - 1) \div DayLen

\* the reads r and q of two calls on g measure the same whole-day counts
SameDayCounts(g, r, q) ==
    \A i \in 1..NumReads : WholeDays(r[i], ReadDate(g, i)) = WholeDays(q[i], ReadDate(g, i))

\* One call of the transformer on repo.  out keeps the instants the call read, its
\* result, whether an earlier call was made (again) and, if so, whether this call
\* measured the same whole-day counts as the one before it (sameDays).
TransformCall ==
    /\ \E r \in ReadVectors(now) :
        /\ out' = Some([ reads |-> r,
                         rec |-> transformGitHubRepoToRepository(repo, r),
                         again |-> out # None,
                         sameDays |-> out # None /\ SameDayCounts(repo, out[1].reads, r) ])
        /\ now' = r[NumReads]
    /\ UNCHANGED repo
    /\ UNCHANGED pageVars
    /\ UNCHANGED compareVars


(***************************************************************************)
(* github-api: what each request function makes of the server's response.  *)
(* A response is [kind |-> "ok", ...], [kind |-> "notOk", statusText] (a    *)
(* status outside 2xx) or [kind |-> "threw", message] (fetch rejected).    *)
(* A function's result is [threw |-> FALSE, value] when it returns and      *)
(* [threw |-> TRUE, message] when it throws.                                *)
(***************************************************************************)
Returns(v) == [threw |-> FALSE, value |-> v]
Throws(m) == [threw |-> TRUE, message |-> m]

searchRepositories(resp) ==
    IF resp.kind = "threw" THEN Throws(resp.message)
    ELSE IF resp.kind = "notOk" THEN Throws("GitHub API error: " \o resp.statusText)
    ELSE Returns(resp.items)

\* an ok response carries the page count of the Link header's rel="last" (or none)
\* and the length of the JSON array
getRepositoryContributors(resp) ==
    IF resp.kind = "threw" THEN Returns(0)
    ELSE IF resp.kind = "notOk" THEN Returns(0)
    ELSE IF resp.linkLast # None THEN Returns(resp.linkLast[1])
    ELSE Returns(resp.length)

getGoodFirstIssues(resp) ==
    IF resp.kind = "threw" THEN Returns(0)
    ELSE IF resp.kind = "notOk" THEN Returns(0)
    ELSE Returns(resp.total_count)

\* getRepositoryWorkflows throwing on a status outside 2xx, as getRepositoryDetails does
getRepositoryWorkflows_ThrowsNotOk(resp) ==
    IF resp.kind = "threw" THEN Returns(FALSE)
    ELSE IF resp.kind = "notOk" THEN Throws("GitHub API error: " \o resp.statusText)
    ELSE Returns(resp.total_count > 0)

getRepositoryWorkflows(resp) ==
    IF resp.kind = "threw" THEN Returns(FALSE)
    ELSE IF resp.kind = "notOk" THEN Returns(FALSE)
    ELSE Returns(resp.total_count > 0)

(***************************************************************************)
(* The server, as the page sees it                                         *)
(***************************************************************************)
\* a search result item: it carries no contributors, goodFirstIssues or hasCI
ItemA == MkRepo([Rich EXCEPT !.contributors = None, !.goodFirstIssues = None, !.hasCI = None],
                3, 400)

NotOk == [kind |-> "notOk", statusText |-> "Forbidden"]
Threw == [kind |-> "threw", message |-> "Failed to fetch"]

SearchResponses ==
    { NotOk, Threw } \cup { [kind |-> "ok", items |-> its] : its \in { <<>>, <<ItemA>> } }

\* the positions an item can have in a search response
ItemIndexes == UNION { DOMAIN resp.items : resp \in { q \in SearchResponses : q.kind = "ok" } }

Kinds == {"contributors", "goodFirstIssues", "hasCI"}

\* the responses a follow-up lookup of a kind can get
LookupResponses(kind) ==
    { NotOk, Threw } \cup
    ( CASE kind = "contributors" -> { [kind |-> "ok", linkLast |-> Some(500), length |-> 1] }
        [] kind = "goodFirstIssues" -> { [kind |-> "ok", total_count |-> 0] }
        [] kind = "hasCI" -> { [kind |-> "ok", total_count |-> 1] } )

Lookup3(kind, resp) ==
    CASE kind = "contributors" -> getRepositoryContributors(resp)
      [] kind = "goodFirstIssues" -> getGoodFirstIssues(resp)
      [] kind = "hasCI" -> getRepositoryWorkflows(resp)

(***************************************************************************)
(* SearchResultsPage                                                       *)
(***************************************************************************)
\* the FilterOptions that performSearch applies to the enriched records
DefaultFilters == [healthRange |-> <<0, 100>>, minIssues |-> 0, hasCi |-> FALSE, hasDocs |-> FALSE]
FilterChoices == { DefaultFilters, [DefaultFilters EXCEPT !.hasCi = TRUE] }

\* An invocation of performSearch: where it stands ("done": it ended in
\* setRepositories, "failed": in the catch block), the filters its closure holds, the
\* items of the search response, the values its lookups have returned so far
\* (None: still outstanding) and, once it has ended and for as long as no later
\* invocation has started, what it set repositories or error to.
Idle == [pc |-> "idle", filters |-> DefaultFilters, items |-> <<>>, slots |-> <<>>,
         result |-> None, error |-> None]
Pending == [k \in Kinds |-> None]

AllResolved(slot) == \A k \in Kinds : slot[k] # None

\* {...item, contributors, goodFirstIssues, hasCI}
Enrich(item, slot) ==
    [item EXCEPT !.contributors = slot["contributors"],
                 !.goodFirstIssues = slot["goodFirstIssues"],
                 !.hasCI = slot["hasCI"]]

\* the clock reads of a transform call the page makes (Spec holds the clock still:
\* what a moving clock does to the transformer is the subject of SpecTransform)
PageReads == [i \in 1..NumReads |-> now]

KeepRepo(r, f) ==
    /\ ~(r.healthScore < f.healthRange[1] \/ r.healthScore > f.healthRange[2])
    /\ ~(f.minIssues > 0 /\ r.goodFirstIssues < f.minIssues)
    /\ ~(f.hasCi /\ r.ciStatus # "passing")
    /\ ~(f.hasDocs /\ ~r.hasGoodDocs)

FilterRepos(rs, f) == LET Keep(r) == KeepRepo(r, f) IN SelectSeq(rs, Keep)

EnrichedRepos(items, slots) ==
    [k \in 1..Len(items) |-> transformGitHubRepoToRepository(Enrich(items[k], slots[k]), PageReads)]

Ended(i, res, err) ==
    [pc |-> IF err = None THEN "done" ELSE "failed", filters |-> DefaultFilters, items |-> <<>>, slots |-> <<>>,
     result |-> IF i = started THEN res ELSE None,
     error |-> IF i = started THEN err ELSE None]

InFlight(i) == inv[i].pc \in {"searching", "enriching"}

handleFilterChange ==
    /\ \E f \in FilterChoices : f # filters /\ filters' = f
    /\ UNCHANGED <<now, repo, out, repositories, loading, error, inv, started>>
    /\ UNCHANGED compareVars

\* performSearch up to its first await: the mount effect, handleSearch, the sidebar's
\* onApplyFilters and the "Try again" button all call it, whatever the page is doing
performSearch ==
    /\ started < MaxInv
    /\ started' = started + 1
    /\ loading' = TRUE
    /\ error' = None
    /\ inv' = [i \in 1..MaxInv |->
                  IF i = started + 1
                  THEN [pc |-> "searching", filters |-> filters, items |-> <<>>,
                        slots |-> <<>>, result |-> None, error |-> None]
                  ELSE [inv[i] EXCEPT !.result = None, !.error = None]]
    /\ UNCHANGED <<now, repo, out, filters, repositories>>
    /\ UNCHANGED compareVars

\* catch and finally of performSearch, the error thrown carrying message m
Catch(i, m) ==
    /\ error' = Some(m)
    /\ loading' = FALSE
    /\ inv' = [inv EXCEPT ![i] = Ended(i, None, Some(m))]
    /\ UNCHANGED repositories

\* the tail of performSearch once every item is enriched, and finally
Finish(i, enriched) ==
    LET filteredRepos == FilterRepos(enriched, inv[i].filters)
    IN  /\ repositories' = filteredRepos
        /\ loading' = FALSE
        /\ inv' = [inv EXCEPT ![i] = Ended(i, Some(filteredRepos), None)]
        /\ UNCHANGED error

\* the search request of invocation i is answered
SearchDone(i) ==
    /\ inv[i].pc = "searching"
    /\ \E resp \in SearchResponses :
        LET res == searchRepositories(resp)
        IN  IF res.threw THEN Catch(i, res.message)
            ELSE IF res.value = <<>> THEN Finish(i, <<>>)
            ELSE /\ inv' = [inv EXCEPT ![i].pc = "enriching",
                                       ![i].items = res.value,
                                       ![i].slots = [k \in 1..Len(res.value) |-> Pending]]
                 /\ UNCHANGED <<repositories, loading, error>>
    /\ UNCHANGED <<now, repo, out, filters, started>>
    /\ UNCHANGED compareVars

\* a follow-up lookup of item k of invocation i is answered
LookupDone(i, k, kind) ==
    /\ inv[i].pc = "enriching"
    /\ k \in DOMAIN inv[i].items
    /\ inv[i].slots[k][kind] = None
    /\ \E resp \in LookupResponses(kind) :
        LET res == Lookup3(kind, resp)
            slots == [inv[i].slots EXCEPT ![k][kind] = Some(res.value)]
        IN  IF res.threw THEN Catch(i, res.message)
            ELSE IF \A j \in 1..Len(slots) : AllResolved(slots[j])
            THEN Finish(i, EnrichedRepos(inv[i].items, slots))
            ELSE /\ inv' = [inv EXCEPT ![i].slots = slots]
                 /\ UNCHANGED <<repositories, loading, error>>
    /\ UNCHANGED <<now, repo, out, filters, started>>
    /\ UNCHANGED compareVars

(***************************************************************************)
(* The comparison selection                                                *)
(***************************************************************************)
Range(s) == { s[k] : k \in DOMAIN s }

\* the updater of handleCompare with the cap tested as prev.length <= 3
NewComparing_Le3(prev, repoId) ==
    IF repoId \in Range(prev)
    THEN LET Other(id) == id # repoId IN SelectSeq(prev, Other)
    ELSE IF Len(prev) <= 3 THEN Append(prev, repoId)
    ELSE prev

\* the updater handleCompare hands to setComparing: prev |-> newComparing
NewComparing(prev, repoId) ==
    IF repoId \in Range(prev)
    THEN LET Other(id) == id # repoId IN SelectSeq(prev, Other)
    ELSE IF Len(prev) < 3 THEN Append(prev, repoId)
    ELSE prev

\* repositories.filter(r => newComparing.includes(r.id))
SelectedRepos(newComparing) ==
    LET Chosen(r) == r.id \in Range(newComparing) IN SelectSeq(repositories, Chosen)

\* the Compare button of the card of repoId is clicked (cards are on screen only
\* when the result grid is)
handleCompare(repoId) ==
    /\ ~loading /\ error = None
    /\ \E k \in DOMAIN repositories : repositories[k].id = repoId
    /\ LET newComparing == NewComparing(comparing, repoId)
       IN  /\ comparing' = newComparing
           /\ IF Len(newComparing) > 1
              THEN /\ Len(timers) < MaxTimers
                   /\ timers' = Append(timers, SelectedRepos(newComparing))
              ELSE UNCHANGED timers
    /\ lastCompare' = Some([repoId |-> repoId, prev |-> comparing])
    /\ UNCHANGED <<now, repo, out>>
    /\ UNCHANGED pageVars

\* 100 ms later: onCompare(selectedRepos), a prop of the page
TimerFires ==
    /\ timers # <<>>
    /\ timers' = Tail(timers)
    /\ UNCHANGED <<now, repo, out, comparing, lastCompare>>
    /\ UNCHANGED pageVars

\* the items of a search response of four repositories
CompareItems == [k \in 1..4 |-> [ItemA EXCEPT !.id = 41 + k]]

\* the three lookups of an item, each answered ok
Answered ==
    [kind \in Kinds |->
        Some(Lookup3(kind, CHOOSE resp \in LookupResponses(kind) : resp.kind = "ok").value)]

PageInit ==
    /\ filters = DefaultFilters
    /\ repositories = <<>>
    /\ loading = FALSE
    /\ error = None
    /\ inv = [i \in 1..MaxInv |-> Idle]
    /\ started = 0
    /\ comparing = <<>>
    /\ timers = <<>>
    /\ lastCompare = None

InitTransform ==
    /\ now \in 0..MaxClock
    /\ repo \in Repos
    /\ out = None
    /\ PageInit

NextTransform == Tick \/ TransformCall

SpecTransform == InitTransform /\ [][NextTransform]_vars

Init ==
    /\ now = 0
    /\ repo = ItemA
    /\ out = None
    /\ PageInit

Next ==
    \/ handleFilterChange
    \/ performSearch
    \/ \E i \in 1..MaxInv : SearchDone(i)
    \/ \E i \in 1..MaxInv, k \in ItemIndexes, kind \in Kinds : LookupDone(i, k, kind)

Spec == Init /\ [][Next]_vars

\* the page once its first search has returned CompareItems and every lookup is answered
InitCompare ==
    /\ now = 0
    /\ repo = ItemA
    /\ out = None
    /\ filters = DefaultFilters
    /\ repositories = FilterRepos(EnrichedRepos(CompareItems, [k \in 1..4 |-> Answered]),
                                  DefaultFilters)
    /\ loading = FALSE
    /\ error = None
    /\ started = 1
    /\ inv = [i \in 1..MaxInv |-> IF i = 1 THEN Ended(1, Some(repositories), None) ELSE Idle]
    /\ comparing = <<>>
    /\ timers = <<>>
    /\ lastCompare = None

CardIds == { ToString(CompareItems[k].id) : k \in DOMAIN CompareItems }

NextCompare ==
    \/ \E repoId \in CardIds : handleCompare(repoId)
    \/ TimerFires

SpecCompare == InitCompare /\ [][NextCompare]_vars

(***************************************************************************)
(* Properties of the transformer (SpecTransform)                           *)
(***************************************************************************)
Breakdown == out[1].rec.healthBreakdown
BreakdownSum ==
    Breakdown.activity + Breakdown.community + Breakdown.documentation
        + Breakdown.freshness + Breakdown.compatibility

\* C1: the healthScore of every record the transformer returns is the mean of the five
\* sub-scores of that record's healthBreakdown, rounded to the nearest integer.
C1_HealthScoreIsRoundedMean ==
    out # None =>
        /\ 10 * out[1].rec.healthScore > 2 * BreakdownSum - 5
        /\ 10 * out[1].rec.healthScore <= 2 * BreakdownSum + 5

C6_ScoresInRange ==
    out # None =>
        /\ Breakdown.activity \in 0..100
        /\ Breakdown.community \in 0..100
        /\ Breakdown.documentation \in 0..100
        /\ Breakdown.freshness \in 0..100
        /\ Breakdown.compatibility \in 0..100
        /\ out[1].rec.healthScore \in 0..100

\* C6 witness: a record whose community, documentation and compatibility scores are
\* all at the top of the range.
C6_Witness ==
    /\ out # None
    /\ Breakdown.community = 100
    /\ Breakdown.documentation = 100
    /\ Breakdown.compatibility = 100

\* the freshness table: rows of <<largest push age in days, score>>, first match wins
YoungRows == << <<30, 95>>, <<90, 85>> >>
MatureRows == << <<7, 95>>, <<30, 85>>, <<90, 70>>, <<180, 55>> >>

RECURSIVE Lookup(_, _, _)
Lookup(rows, d, else) ==
    IF rows = <<>> THEN else
    ELSE IF d <= Head(rows)[1] THEN Head(rows)[2]
    ELSE Lookup(Tail(rows), d, else)

FreshnessTable(daysCreated, daysPushed) ==
    IF daysCreated < 365 THEN Lookup(YoungRows, daysPushed, 70)
    ELSE Lookup(MatureRows, daysPushed, 35)

\* C7: the freshness sub-score of a returned record is the entry of the two-tier table
\* for the day counts the call measured, and at the push age measured a repository
\* created 10 days ago scores no lower than one created 800 days ago.
C7_FreshnessTable ==
    out # None =>
        LET r == out[1].reads
        IN  /\ Breakdown.freshness =
                 FreshnessTable(getDaysSince(repo.created_at, r[5]),
                                getDaysSince(repo.pushed_at, r[6]))
            /\ calculateFreshnessScore(DaysAgo(10), repo.pushed_at, r[5], r[6])
                 >= calculateFreshnessScore(DaysAgo(800), repo.pushed_at, r[5], r[6])

\* C7 witness: a repository exactly 365 days old, pushed 14 days ago, scores 85 (the
\* mature tier; the young tier would give 95).
C7_Witness ==
    /\ out # None
    /\ getDaysSince(repo.created_at, out[1].reads[5]) = 365
    /\ getDaysSince(repo.pushed_at, out[1].reads[6]) = 14
    /\ Breakdown.freshness = 85

\* the text the time-ago table gives for a count of d days
TimeAgoTable(d) ==
    LET Text(q, unit) == IF q = 1 THEN "1 " \o unit \o " ago"
                         ELSE ToString(q) \o " " \o unit \o "s ago"
    IN  CASE d = 0 -> "today"
          [] d \in 1..6 -> Text(d, "day")
          [] d \in 7..29 -> Text(d \div 7, "week")
          [] d \in 30..364 -> Text(d \div 30, "month")
          [] d >= 365 -> Text(d \div 365, "year")

\* C8: lastCommit of a returned record is the time-ago text of the day count measured
\* from pushed_at, and that count is never negative, also when pushed_at is ahead of
\* the clock.
C8_TimeAgo ==
    out # None =>
        LET d == getDaysSince(repo.pushed_at, out[1].reads[9])
        IN  /\ d >= 0
            /\ out[1].rec.lastCommit = TimeAgoTable(d)

\* C8 witness: 13 days give "1 week ago".
C8_Witness ==
    /\ out # None
    /\ getDaysSince(repo.pushed_at, out[1].reads[9]) = 13
    /\ out[1].rec.lastCommit = "1 week ago"

SignalOrder == <<"Active", "Good Docs", "Beginner Friendly", "Large Community", "Modern">>

\* the condition of a signal label, on the day counts the call measured
SignalHolds(label) ==
    CASE label = "Active" -> getDaysSince(repo.pushed_at, out[1].reads[7]) <= 7
      [] label = "Good Docs" ->
            repo.has_wiki \/ repo.has_pages \/ repo.homepage \notin {None, Some("")}
      [] label = "Beginner Friendly" ->
            repo.goodFirstIssues # None /\ repo.goodFirstIssues[1] > 0
      [] label = "Large Community" -> repo.stargazers_count >= 10000
      [] label = "Modern" -> getDaysSince(repo.created_at, out[1].reads[8]) < 730

\* C9: the signals of a returned record are the labels whose condition holds, each
\* once, in the fixed order.
C9_SignalsInOrder ==
    out # None => out[1].rec.signals = SelectSeq(SignalOrder, SignalHolds)

\* C9 witness: a record that carries all five labels.
C9_Witness ==
    /\ out # None
    /\ out[1].rec.signals = SignalOrder

(***************************************************************************)
(* Properties of the search page (Spec)                                    *)
(***************************************************************************)
\* the result grid is on screen
ListRendered == ~loading /\ error = None /\ Len(repositories) > 0

\* in this step the search request of invocation i fails
SearchFails(i) == inv[i].pc = "searching" /\ inv'[i].pc = "failed"

\* C3: a step in which the search request of a performSearch fails leaves error set,
\* loading false and repositories empty.
C3_SearchFailureEmptiesResults ==
    [][\A i \in 1..MaxInv :
          SearchFails(i) => (error' # None /\ loading' = FALSE /\ repositories' = <<>>)]_vars

\* the value a follow-up lookup falls back to
Default(kind) == IF kind = "hasCI" THEN FALSE ELSE 0

\* in this step a follow-up lookup of invocation i is answered
LookupAnswered(i) == inv[i].pc = "enriching" /\ inv'[i] # inv[i]

\* C4: a follow-up lookup that gets a failing response (a status outside 2xx, a
\* rejected fetch) returns its default; the step that answers a lookup never sets
\* error and never ends the search as failed; a lookup once answered is not asked
\* again; and when the last lookup is answered the item is transformed and, under
\* filters that exclude nothing, is the result set.
C4_LookupFailureDegrades ==
    [][\A i \in 1..MaxInv :
          LookupAnswered(i) =>
              /\ \A kind \in Kinds, resp \in {NotOk, Threw} :
                    Lookup3(kind, resp) = Returns(Default(kind))
              /\ error' = error
              /\ inv'[i].pc # "failed"
              /\ inv'[i].pc = "enriching" =>
                    \A kind \in Kinds :
                        inv[i].slots[1][kind] # None =>
                            inv'[i].slots[1][kind] = inv[i].slots[1][kind]
              /\ inv'[i].pc = "done" =>
                    /\ loading' = FALSE
                    /\ \A k \in 1..Len(repositories') :
                          repositories'[k].id = ToString(inv[i].items[k].id)
                    /\ inv[i].filters = DefaultFilters =>
                          Len(repositories') = Len(inv[i].items)]_vars

\* C4 witness: the item is in the result set with every enrichment at its default (the
\* server holds 500 contributors and a workflow for it), with no error shown.
C4_Witness ==
    /\ ~loading
    /\ error = None
    /\ Len(repositories) = 1
    /\ repositories[1].id = "42"
    /\ repositories[1].contributors = 0
    /\ repositories[1].goodFirstIssues = 0
    /\ repositories[1].ciStatus = "warning"

\* C5: while the search request or a follow-up lookup of any performSearch is
\* outstanding, the page shows the loading state and no result list.
C5_LoadingWhileOutstanding ==
    \A i \in 1..MaxInv : InFlight(i) => (loading /\ ~ListRendered)

\* C5, first half: repositories changes only in the step that ends an invocation whose
\* search request and lookups are then all answered.
C5_UpdateOnlyWhenComplete ==
    [][repositories' # repositories =>
          \E i \in 1..MaxInv :
              /\ InFlight(i)
              /\ inv'[i].pc = "done"]_vars

\* C10: once every performSearch started has ended, the page shows what the most
\* recently started one produced (its result set and no error, or its error), and
\* loading is true while any of them is in flight.
C10_LatestSearchWins ==
    /\ (\E i \in 1..MaxInv : InFlight(i)) => loading
    /\ (started >= 1 /\ \A i \in 1..started : ~InFlight(i)) =>
          /\ error = inv[started].error
          /\ inv[started].result # None => repositories = inv[started].result[1]

(***************************************************************************)
(* Properties of the comparison selection (SpecCompare)                    *)
(***************************************************************************)
\* C11: the selection holds at most 3 ids, none twice, and after a handleCompare
\* call it is the selection the call found without the id when the id was selected,
\* with the id added when it was not and fewer than 3 were selected, and the same
\* selection otherwise.
C11_CompareSelection ==
    /\ Len(comparing) <= 3
    /\ Cardinality(Range(comparing)) = Len(comparing)
    /\ lastCompare # None =>
          LET id == lastCompare[1].repoId
              before == Range(lastCompare[1].prev)
          IN  IF id \in before THEN Range(comparing) = before \ {id}
              ELSE IF Cardinality(before) < 3 THEN Range(comparing) = before \cup {id}
              ELSE comparing = lastCompare[1].prev

\* C11 witness: a call on an unselected id found 3 ids selected and left them so.
C11_Witness ==
    /\ lastCompare # None
    /\ Len(lastCompare[1].prev) = 3
    /\ lastCompare[1].repoId \notin Range(lastCompare[1].prev)
    /\ comparing = lastCompare[1].prev

====
